---- MODULE Spec2Model ----
(***************************************************************************)
(* Model of the OpenMP pipeline kernel src/OPENMP/Synch_p2p/p2p.c.         *)
(*                                                                         *)
(* The sequential part of main (argument checks, slice computation,        *)
(* verification, report) is a small program counter mainpc.  Inside the    *)
(* parallel region every thread has its own position pc[w] and its private *)
(* loop variables; every access to the shared arrays vector and flag is    *)
(* one step.  Grid values are doubles in the code; every value the kernel  *)
(* produces is a sum or difference of integers far below 2^53, so they are *)
(* integers here.                                                          *)
(*                                                                         *)
(* Two memory semantics are modelled.  With relaxed = FALSE a store is     *)
(* visible to all threads at once (plain interleaving).  With relaxed =    *)
(* TRUE a store stays in the storing thread's buffer until the thread      *)
(* flushes that variable, reaches a barrier, or the store is written back  *)
(* spontaneously, in any order (action WriteBack).                         *)
(***************************************************************************)
EXTENDS Integers, Naturals, Sequences, FiniteSets, TLC

(* ------------------------------ bounds --------------------------------- *)
\* largest grid extent that is swept (larger extents only meet the checks)
MaxDim == 3
\* largest number of columns of the two-row grids swept in long pipelines
MaxCols == 4
\* largest number of iterations
MaxIter == 2
\* largest time one sweep can take, in clock ticks
MaxTick == 2
\* MAX_THREADS of par-res-kern_omp.h, scaled down
MAX_THREADS == 3
\* MEMWORDS of p2p.c:73 (1000000), scaled down
MEMWORDS == 9
\* width of int (32 in the code), scaled down so that m*n can wrap
IntBits == 6

(* --------------------------- program constants ------------------------- *)
\* p2p.c:91  mintime = 366.0*24.0*3600.0
MINTIME_INIT == 31622400
\* p2p.c:93  epsilon = 1.e-8, kept as its reciprocal
EPSILON_INV == 100000000
\* p2p.c:109 argc != 5
ARGC_EXPECTED == 5

VARIABLES
  argc, nthread_input, iterations, m, n,   \* command line (p2p.c:109-132)
  total_length,                            \* p2p.c:140
  start, end,                              \* slice table (p2p.c:153-165)
  mainpc, exitcode, output,                \* initial thread: position, exit status, lines printed
  team,                                    \* number of threads the runtime spawned
  nthread, num_error,                      \* p2p.c:172-176
  vector, flag,                            \* shared memory
  wbv, wbf,                                \* per thread: stores not yet written back
  relaxed,                                 \* memory semantics of this run
  pc, ii, jj, iter,                        \* per thread: position and private i, j, iter
  clock, pipeline_time, avgtime, mintime, maxtime, avgdiv,
  wcount, touched,                         \* history: compute-loop stores per cell in this iteration; any store yet
  nset, nclear,                            \* history: stores of 1 / of 0 by the successor to flag[w] in this iteration
  folded                                   \* history: <<iter, elapsed>> of every sample added to avgtime

vars == <<argc, nthread_input, iterations, m, n, total_length, start, end,
          mainpc, exitcode, output, team, nthread, num_error, vector, flag,
          wbv, wbf, relaxed, pc, ii, jj, iter,
          clock, pipeline_time, avgtime, mintime, maxtime, avgdiv,
          wcount, touched, nset, nclear, folded>>

inputVars == <<argc, nthread_input, iterations, m, n, relaxed>>
timeVars == <<clock, pipeline_time, avgtime, mintime, maxtime>>
memVars == <<vector, flag, wbv, wbf, touched>>
posVars == <<pc, ii, jj, iter>>
histVars == <<nset, nclear, folded>>

(* ------------------------------ helpers -------------------------------- *)
Threads == 0 .. MAX_THREADS - 1
Team == 0 .. team - 1
Cells == 0 .. MEMWORDS - 1

INT_MAX == 2^(IntBits - 1) - 1

\* value of an int expression whose true value is x (two's complement wrap)
Wrap(x) == ((x + 2^(IntBits - 1)) % 2^IntBits) - 2^(IntBits - 1)

\* C integer division, b > 0: truncation toward zero
CDiv(a, b) == IF a >= 0 THEN a \div b ELSE -((-a) \div b)

MAX(a, b) == IF a > b THEN a ELSE b
MIN(a, b) == IF a < b THEN a ELSE b

\* #define ARRAY(i,j) vector[i+(j)*(m)]
ARRAY(i, j) == i + j * m

EmptyBuf == [x \in {} |-> 0]
Without(f, x) == [y \in (DOMAIN f) \ {x} |-> f[y]]
\* memory mem after all stores of buffer buf reached it
Merge(mem, buf) == [x \in DOMAIN mem |-> IF x \in DOMAIN buf THEN buf[x] ELSE mem[x]]

\* value thread w reads: its own pending store, else memory
ReadV(w, idx) == IF idx \in DOMAIN wbv[w] THEN wbv[w][idx]
                 ELSE IF idx \in DOMAIN vector THEN vector[idx] ELSE 0
ReadF(w, k) == IF k \in DOMAIN wbf[w] THEN wbf[w][k] ELSE flag[k]


\* a store by thread w; visible at once unless the run is relaxed
StoreV(w, idx, val) ==
  /\ touched' = TRUE
  /\ IF relaxed
       THEN /\ wbv' = [wbv EXCEPT ![w] = (idx :> val) @@ @]
            /\ vector' = vector
       ELSE /\ vector' = IF idx \in Cells THEN [vector EXCEPT ![idx] = val] ELSE vector
            /\ wbv' = wbv
  /\ UNCHANGED <<flag, wbf>>

StoreF(w, k, val) ==
  /\ touched' = TRUE
  /\ IF relaxed
       THEN /\ wbf' = [wbf EXCEPT ![w] = (k :> val) @@ @]
            /\ flag' = flag
       ELSE /\ flag' = [flag EXCEPT ![k] = val]
            /\ wbf' = wbf
  /\ UNCHANGED <<vector, wbv>>

\* #pragma omp flush(...) by thread w: its pending stores to the listed
\* variables reach memory
FlushOp(w, withFlag, withVector) ==
  /\ flag' = IF withFlag THEN Merge(flag, wbf[w]) ELSE flag
  /\ wbf' = IF withFlag THEN [wbf EXCEPT ![w] = EmptyBuf] ELSE wbf
  /\ vector' = IF withVector THEN Merge(vector, wbv[w]) ELSE vector
  /\ wbv' = IF withVector THEN [wbv EXCEPT ![w] = EmptyBuf] ELSE wbv
  /\ UNCHANGED touched

\* exit(...) ends the process: every thread stops where it is
ProcessExit(code) ==
  /\ mainpc' = "exit"
  /\ exitcode' = code
  /\ pc' = [w \in Threads |-> "idle"]

(* ------------------------------- Init ---------------------------------- *)
\* extents offered on the command line: the swept ones, and two whose
\* products leave the range of int
BigDims == {2^(IntBits \div 2), INT_MAX}
Dims == (0 .. MaxDim) \cup BigDims

InitRest ==
  /\ total_length = 0
  /\ start = EmptyBuf
  /\ end = EmptyBuf
  /\ mainpc = "validate"
  /\ exitcode = "none"
  /\ output = {}
  /\ team = 0
  /\ nthread = 0
  /\ num_error = 0
  /\ vector = [c \in Cells |-> 0]          \* static storage is zeroed
  /\ flag \in [Threads -> {0, 1}]          \* automatic storage: any contents
  /\ wbv = [w \in Threads |-> EmptyBuf]
  /\ wbf = [w \in Threads |-> EmptyBuf]
  /\ pc = [w \in Threads |-> "idle"]
  /\ ii = [w \in Threads |-> 0]
  /\ jj = [w \in Threads |-> 0]
  /\ iter = [w \in Threads |-> 0]
  /\ clock = 0
  /\ pipeline_time = 0
  /\ avgtime = 0
  /\ mintime = MINTIME_INIT
  /\ maxtime = 0
  /\ avgdiv = 0
  /\ wcount = [c \in Cells |-> 0]
  /\ touched = FALSE
  /\ nset = [w \in Threads |-> 0]
  /\ nclear = [w \in Threads |-> 0]
  /\ folded = << >>

Init ==
  /\ argc \in {ARGC_EXPECTED - 1, ARGC_EXPECTED}
  /\ nthread_input \in 0 .. MAX_THREADS + 1
  /\ iterations \in 0 .. MaxIter
  /\ m \in Dims
  /\ n \in Dims
  /\ relaxed = FALSE
  /\ InitRest

(* ------------------- initial thread, before the region ----------------- *)
\* the capacity check without its overflow test
GridTooLarge_NoDivision(t) == t > MEMWORDS

\* p2p.c:141  total_length/n != m || total_length > MEMWORDS
GridTooLarge(t) == CDiv(t, n) # m \/ t > MEMWORDS

\* the row check off by one
TooFewRows_OffByOne == m < nthread_input - 1

\* p2p.c:147  m<nthread_input
TooFewRows == m < nthread_input

\* the first check of p2p.c:109-151 that fails, in program order
ValidationError ==
  IF argc # ARGC_EXPECTED THEN "usage"
  ELSE IF nthread_input < 1 \/ nthread_input > MAX_THREADS THEN "threads"
  ELSE IF iterations < 1 THEN "iterations"
  ELSE IF m < 1 \/ n < 1 THEN "dimensions"
  ELSE IF GridTooLarge(Wrap(m * n)) THEN "too large"
  ELSE IF TooFewRows THEN "rows"
  ELSE "none"

Validate ==
  /\ mainpc = "validate"
  /\ total_length' = IF ValidationError \in {"too large", "rows", "none"}
                       THEN Wrap(m * n) ELSE total_length
  /\ IF ValidationError = "none"
       THEN /\ mainpc' = "partition"
            /\ UNCHANGED <<exitcode, output, pc>>
       ELSE /\ ProcessExit("EXIT_FAILURE")
            /\ output' = output \cup {ValidationError}
  /\ UNCHANGED <<inputVars, histVars, start, end, team, nthread, num_error, memVars,
                 ii, jj, iter, timeVars, avgdiv, wcount>>

\* the remainder rows handed to one thread too many
SegmentSize_ExtraRow(ID) ==
  (m \div nthread_input) + (IF ID <= (m % nthread_input) THEN 1 ELSE 0)

\* p2p.c:161-162
SegmentSize(ID) ==
  (m \div nthread_input) + (IF ID < (m % nthread_input) THEN 1 ELSE 0)

\* p2p.c:159-165, the table the loop leaves behind
RECURSIVE SliceStart(_), SliceEnd(_)
SliceStart(ID) == IF ID = 0 THEN 0 ELSE SliceEnd(ID - 1) + 1
SliceEnd(ID) == SliceStart(ID) + SegmentSize(ID) - 1

Partition ==
  /\ mainpc = "partition"
  /\ \E allocated \in BOOLEAN :
       IF allocated
         THEN /\ start' = [ID \in 0 .. nthread_input - 1 |-> SliceStart(ID)]
              /\ end' = [ID \in 0 .. nthread_input - 1 |-> SliceEnd(ID)]
              /\ mainpc' = "fork"
              /\ UNCHANGED <<exitcode, output, pc>>
         ELSE /\ ProcessExit("EXIT_FAILURE")
              /\ output' = output \cup {"allocation"}
              /\ UNCHANGED <<start, end>>
  /\ UNCHANGED <<inputVars, histVars, total_length, team, nthread, num_error, memVars,
                 ii, jj, iter, timeVars, avgdiv, wcount>>

\* team sizes the runtime may deliver for a request of nthread_input
SpawnSizes == {nthread_input} \cup {k \in 1 .. nthread_input - 1 : k = nthread_input - 1}

\* p2p.c:167  #pragma omp parallel: the master enters its block, the others
\* go straight to bail_out
Fork ==
  /\ mainpc = "fork"
  /\ \E t \in SpawnSizes :
       /\ team' = t
       /\ pc' = [w \in Threads |-> IF w = 0 THEN "master"
                                   ELSE IF w < t THEN "bail" ELSE "idle"]
  /\ mainpc' = "parallel"
  /\ UNCHANGED <<inputVars, histVars, total_length, start, end, exitcode, output, nthread,
                 num_error, memVars, ii, jj, iter, timeVars, avgdiv, wcount>>

(* ------------------------- positions in the region --------------------- *)
P(p, i, j) == [pc |-> p, i |-> i, j |-> j]

Goto(w, p) ==
  /\ pc' = [pc EXCEPT ![w] = p.pc]
  /\ ii' = [ii EXCEPT ![w] = p.i]
  /\ jj' = [jj EXCEPT ![w] = p.j]

\* p2p.c:200  iter<iterations
IterPc(it) == IF it < iterations THEN "reset" ELSE "end"

\* p2p.c:198  for (i=start[my_ID]; i<=end[my_ID]; i++) ARRAY(i,0) = ...
EnterLeft(w, i, j) ==
  IF start[w] <= end[w] THEN P("left", start[w], j) ELSE P(IterPc(0), start[w], j)

\* p2p.c:197  if (my_ID==0) for (j=0; j<n; j++) ...
EnterBottom(w, i, j) ==
  IF w = 0
    THEN IF 0 < n THEN P("bottom", i, 0) ELSE EnterLeft(w, i, 0)
    ELSE EnterLeft(w, i, j)

\* p2p.c:195  for (j=0; j<n; j++) for (i=start[my_ID]; i<=end[my_ID]; i++)
EnterZero(w) ==
  IF 0 < n
    THEN IF start[w] <= end[w] THEN P("zero", start[w], 0)
                               ELSE EnterBottom(w, start[w], n)
    ELSE EnterBottom(w, ii[w], 0)

\* the compute loop starting one row early
FirstRow_OneEarly(w) == MAX(start[w] - 1, 1)

\* p2p.c:224  first row of the compute loop, MAX(start[my_ID],1)
FirstRow(w) == MAX(start[w], 1)

\* a publish section that the last thread executes too
HasSuccessor_All(w) == w < nthread

\* p2p.c:229  my_ID < nthread-1
HasSuccessor(w) == w < nthread - 1

\* the wait skipped by thread 1
HasPredecessor_SkipFirst(w) == w > 1

\* p2p.c:216  my_ID > 0
HasPredecessor(w) == w > 0

RECURSIVE EnterCol(_, _, _)
\* p2p.c:238/251  after the column loop: the master stops the timer first
AfterLoop(w, i, c) == P(IF w = 0 THEN "tstop" ELSE "barrier251", i, c)

\* p2p.c:229  publish section, or on to the next column
EnterPublish(w, i, c) ==
  IF HasSuccessor(w) THEN P("pubwait", i, c) ELSE EnterCol(w, i, c + 1)

\* p2p.c:224  compute loop of column c, skipped when the strip has no row >= 1
EnterCompute(w, c) ==
  IF FirstRow(w) <= end[w] THEN P("compute", FirstRow(w), c)
                           ELSE EnterPublish(w, FirstRow(w), c)

\* p2p.c:213-216  column c of the column loop
EnterCol(w, i, c) ==
  IF c < n
    THEN IF HasPredecessor(w) THEN P("wait", i, c) ELSE EnterCompute(w, c)
    ELSE AfterLoop(w, i, c)

(* ------------------------------ barriers -------------------------------- *)
\* a barrier that opens for whoever has arrived
BarrierFull_Any(cnt) == cnt >= 1

\* a barrier that waits for one thread more than the team has
BarrierFull_OffByOne(cnt) == cnt > team

\* a barrier opens when the whole team has arrived
BarrierFull(cnt) == cnt = team

AllIn(p) == BarrierFull(Cardinality({w \in Team : pc[w] = p}))

\* arrival of w at a barrier: implies a flush of everything
Arrive(w, at, inside) ==
  /\ mainpc = "parallel"
  /\ w \in Team
  /\ pc[w] = at
  /\ pc' = [pc EXCEPT ![w] = inside]
  /\ FlushOp(w, TRUE, TRUE)

(* --------------------------- region prologue ---------------------------- *)
\* a spawn test that only notices too many threads
SpawnMismatch_OnlyMore == team > nthread_input

\* p2p.c:175  nthread != nthread_input
SpawnMismatch == team # nthread_input

\* p2p.c:170-189  #pragma omp master
Master ==
  /\ mainpc = "parallel"
  /\ pc[0] = "master"
  /\ nthread' = team
  /\ num_error' = IF SpawnMismatch THEN 1 ELSE num_error
  /\ output' = output \cup {"header"}
                      \cup (IF SpawnMismatch THEN {"spawn mismatch"}
                                                    ELSE {"parameters"})
  /\ pc' = [pc EXCEPT ![0] = "bail"]
  /\ UNCHANGED <<inputVars, histVars, total_length, start, end, mainpc, exitcode, team,
                 memVars, ii, jj, iter, timeVars, avgdiv, wcount>>

\* p2p.c:190  bail_out(num_error): all threads meet, ...
BailArrive(w) ==
  /\ Arrive(w, "bail", "in_bail")
  /\ UNCHANGED <<inputVars, histVars, total_length, start, end, mainpc, exitcode, output,
                 team, nthread, num_error, ii, jj, iter, timeVars, avgdiv, wcount>>

BailRelease ==
  /\ mainpc = "parallel"
  /\ AllIn("in_bail")
  /\ \E w \in Team : pc[w] = "in_bail"
  /\ pc' = [w \in Threads |-> IF pc[w] = "in_bail" THEN "bailchk" ELSE pc[w]]
  /\ UNCHANGED <<inputVars, histVars, total_length, start, end, mainpc, exitcode, output,
                 team, nthread, num_error, memVars, ii, jj, iter, timeVars,
                 avgdiv, wcount>>

\* ... then each one leaves the program if an error was signalled
BailCheck(w) ==
  /\ mainpc = "parallel"
  /\ w \in Team
  /\ pc[w] = "bailchk"
  /\ IF num_error # 0
       THEN /\ ProcessExit("EXIT_FAILURE")
            /\ UNCHANGED <<ii, jj>>
       ELSE /\ Goto(w, EnterZero(w))
            /\ UNCHANGED <<mainpc, exitcode>>
  /\ UNCHANGED <<inputVars, histVars, total_length, start, end, output, team, nthread,
                 num_error, memVars, iter, timeVars, avgdiv, wcount>>

\* p2p.c:195  ARRAY(i,j) = 0.0
ZeroCell(w) ==
  /\ mainpc = "parallel"
  /\ w \in Team
  /\ pc[w] = "zero"
  /\ StoreV(w, ARRAY(ii[w], jj[w]), 0)
  /\ Goto(w, IF ii[w] < end[w] THEN P("zero", ii[w] + 1, jj[w])
             ELSE IF jj[w] + 1 < n THEN P("zero", start[w], jj[w] + 1)
             ELSE EnterBottom(w, end[w] + 1, n))
  /\ UNCHANGED <<inputVars, histVars, total_length, start, end, mainpc, exitcode, output,
                 team, nthread, num_error, iter, timeVars, avgdiv, wcount>>

\* p2p.c:197  ARRAY(start[my_ID],j) = (double) j
BottomCell(w) ==
  /\ mainpc = "parallel"
  /\ w \in Team
  /\ pc[w] = "bottom"
  /\ StoreV(w, ARRAY(start[w], jj[w]), jj[w])
  /\ Goto(w, IF jj[w] + 1 < n THEN P("bottom", ii[w], jj[w] + 1)
             ELSE EnterLeft(w, ii[w], n))
  /\ UNCHANGED <<inputVars, histVars, total_length, start, end, mainpc, exitcode, output,
                 team, nthread, num_error, iter, timeVars, avgdiv, wcount>>

\* p2p.c:198  ARRAY(i,0) = (double) i
LeftCell(w) ==
  /\ mainpc = "parallel"
  /\ w \in Team
  /\ pc[w] = "left"
  /\ StoreV(w, ARRAY(ii[w], 0), ii[w])
  /\ Goto(w, IF ii[w] < end[w] THEN P("left", ii[w] + 1, jj[w])
             ELSE P(IterPc(0), end[w] + 1, jj[w]))
  /\ iter' = [iter EXCEPT ![w] = 0]
  /\ UNCHANGED <<inputVars, histVars, total_length, start, end, mainpc, exitcode, output,
                 team, nthread, num_error, timeVars, avgdiv, wcount>>

(* ---------------------------- iteration loop ---------------------------- *)
\* p2p.c:203  flag[my_ID] = 0
ResetFlag(w) ==
  /\ mainpc = "parallel"
  /\ w \in Team
  /\ pc[w] = "reset"
  /\ StoreF(w, w, 0)
  /\ pc' = [pc EXCEPT ![w] = "barrier206"]
  /\ UNCHANGED <<inputVars, histVars, total_length, start, end, mainpc, exitcode, output,
                 team, nthread, num_error, ii, jj, iter, timeVars, avgdiv, wcount>>

\* p2p.c:206  #pragma omp barrier
Barrier206(w) ==
  /\ Arrive(w, "barrier206", "in206")
  /\ UNCHANGED <<inputVars, histVars, total_length, start, end, mainpc, exitcode, output,
                 team, nthread, num_error, ii, jj, iter, timeVars, avgdiv, wcount>>

\* the barrier of p2p.c:206 opens: the master goes to the timer (p2p.c:208),
\* the others to the column loop (p2p.c:213)
Release206 ==
  /\ mainpc = "parallel"
  /\ AllIn("in206")
  /\ \E w \in Team : pc[w] = "in206"
  /\ pc' = [w \in Threads |-> IF pc[w] # "in206" THEN pc[w]
                              ELSE IF w = 0 THEN "tstart"
                              ELSE EnterCol(w, ii[w], 1).pc]
  /\ ii' = [w \in Threads |-> IF pc[w] # "in206" \/ w = 0 THEN ii[w]
                              ELSE EnterCol(w, ii[w], 1).i]
  /\ jj' = [w \in Threads |-> IF pc[w] # "in206" \/ w = 0 THEN jj[w]
                              ELSE EnterCol(w, ii[w], 1).j]
  /\ wcount' = [c \in Cells |-> 0]
  /\ nset' = [w \in Threads |-> 0]
  /\ nclear' = [w \in Threads |-> 0]
  /\ UNCHANGED <<inputVars, folded, total_length, start, end, mainpc, exitcode, output,
                 team, nthread, num_error, memVars, iter, timeVars, avgdiv>>

\* p2p.c:208-211  pipeline_time = wtime()
TimerStart ==
  /\ mainpc = "parallel"
  /\ pc[0] = "tstart"
  /\ pipeline_time' = clock
  /\ Goto(0, EnterCol(0, ii[0], 1))
  /\ UNCHANGED <<inputVars, histVars, total_length, start, end, mainpc, exitcode, output,
                 team, nthread, num_error, memVars, iter, clock, avgtime,
                 mintime, maxtime, avgdiv, wcount>>

\* a spin loop that never spins
FlagNotReady_Never(v) == FALSE

\* p2p.c:217  flag[my_ID-1] == 0
FlagNotReady(v) == v = 0

\* p2p.c:217-219  one test of the spin loop; a failed test flushes flag
WaitFlag(w) ==
  /\ mainpc = "parallel"
  /\ w \in Team
  /\ pc[w] = "wait"
  /\ IF FlagNotReady(ReadF(w, w - 1))
       THEN /\ FlushOp(w, TRUE, FALSE)
            /\ UNCHANGED pc
       ELSE /\ pc' = [pc EXCEPT ![w] = "clear"]
            /\ UNCHANGED memVars
  /\ UNCHANGED <<inputVars, histVars, total_length, start, end, mainpc, exitcode, output,
                 team, nthread, num_error, ii, jj, iter, timeVars, avgdiv, wcount>>

\* p2p.c:220  flag[my_ID-1] = 0
ClearFlag(w) ==
  /\ mainpc = "parallel"
  /\ w \in Team
  /\ pc[w] = "clear"
  /\ StoreF(w, w - 1, 0)
  /\ nclear' = [nclear EXCEPT ![w - 1] = @ + 1]
  /\ pc' = [pc EXCEPT ![w] = "cflush"]
  /\ UNCHANGED <<inputVars, nset, folded, total_length, start, end, mainpc, exitcode, output,
                 team, nthread, num_error, ii, jj, iter, timeVars, avgdiv, wcount>>

\* p2p.c:221  #pragma omp flush(flag,vector)
ConsumeFlush(w) ==
  /\ mainpc = "parallel"
  /\ w \in Team
  /\ pc[w] = "cflush"
  /\ FlushOp(w, TRUE, TRUE)
  /\ Goto(w, EnterCompute(w, jj[w]))
  /\ UNCHANGED <<inputVars, histVars, total_length, start, end, mainpc, exitcode, output,
                 team, nthread, num_error, iter, timeVars, avgdiv, wcount>>

\* the stencil without its diagonal term
Stencil_NoDiagonal(below, left, diag) == below + left

\* p2p.c:225  ARRAY(i-1,j) + ARRAY(i,j-1) - ARRAY(i-1,j-1)
Stencil(below, left, diag) == below + left - diag

\* p2p.c:224-226  one pass of the compute loop
ComputeCell(w) ==
  /\ mainpc = "parallel"
  /\ w \in Team
  /\ pc[w] = "compute"
  /\ StoreV(w, ARRAY(ii[w], jj[w]),
            Stencil(ReadV(w, ARRAY(ii[w] - 1, jj[w])),
                    ReadV(w, ARRAY(ii[w], jj[w] - 1)),
                    ReadV(w, ARRAY(ii[w] - 1, jj[w] - 1))))
  /\ wcount' = [c \in Cells |-> IF c = ARRAY(ii[w], jj[w]) THEN wcount[c] + 1
                                ELSE wcount[c]]
  /\ Goto(w, IF ii[w] < end[w] THEN P("compute", ii[w] + 1, jj[w])
             ELSE EnterPublish(w, ii[w] + 1, jj[w]))
  /\ UNCHANGED <<inputVars, histVars, total_length, start, end, mainpc, exitcode, output,
                 team, nthread, num_error, iter, timeVars, avgdiv>>

\* a publish that does not wait for the slot to be free
FlagStillSet_Never(v) == FALSE

\* p2p.c:230  flag[my_ID] == 1
FlagStillSet(v) == v = 1

\* p2p.c:230-232  one test of the spin loop; a failed test flushes flag
PublishWait(w) ==
  /\ mainpc = "parallel"
  /\ w \in Team
  /\ pc[w] = "pubwait"
  /\ IF FlagStillSet(ReadF(w, w))
       THEN /\ FlushOp(w, TRUE, FALSE)
            /\ UNCHANGED pc
       ELSE /\ pc' = [pc EXCEPT ![w] = "pubset"]
            /\ UNCHANGED memVars
  /\ UNCHANGED <<inputVars, histVars, total_length, start, end, mainpc, exitcode, output,
                 team, nthread, num_error, ii, jj, iter, timeVars, avgdiv, wcount>>

\* p2p.c:233  flag[my_ID] = 1
SetFlag(w) ==
  /\ mainpc = "parallel"
  /\ w \in Team
  /\ pc[w] = "pubset"
  /\ StoreF(w, w, 1)
  /\ nset' = [nset EXCEPT ![w] = @ + 1]
  /\ pc' = [pc EXCEPT ![w] = "pflush"]
  /\ UNCHANGED <<inputVars, nclear, folded, total_length, start, end, mainpc, exitcode, output,
                 team, nthread, num_error, ii, jj, iter, timeVars, avgdiv, wcount>>

\* p2p.c:234  #pragma omp flush(flag,vector), then j++
PublishFlush(w) ==
  /\ mainpc = "parallel"
  /\ w \in Team
  /\ pc[w] = "pflush"
  /\ FlushOp(w, TRUE, TRUE)
  /\ Goto(w, EnterCol(w, ii[w], jj[w] + 1))
  /\ UNCHANGED <<inputVars, histVars, total_length, start, end, mainpc, exitcode, output,
                 team, nthread, num_error, iter, timeVars, avgdiv, wcount>>

\* a timer that also counts the warm-up iteration
SampleCounts_Always(it) == TRUE

\* p2p.c:241  iter>0 || iterations==1
SampleCounts(it) == it > 0 \/ iterations = 1

\* p2p.c:238-246  the master stops the timer; wtime() has advanced by d
TimerStop ==
  /\ mainpc = "parallel"
  /\ pc[0] = "tstop"
  /\ \E d \in 1 .. MaxTick :
       LET elapsed == (clock + d) - pipeline_time IN
       /\ clock' = clock + d
       /\ pipeline_time' = elapsed
       /\ avgtime' = IF SampleCounts(iter[0]) THEN avgtime + elapsed ELSE avgtime
       /\ mintime' = IF SampleCounts(iter[0]) THEN MIN(mintime, elapsed) ELSE mintime
       /\ maxtime' = IF SampleCounts(iter[0]) THEN MAX(maxtime, elapsed) ELSE maxtime
       /\ folded' = IF avgtime' # avgtime THEN Append(folded, <<iter[0], elapsed>>)
                     ELSE folded
  /\ pc' = [pc EXCEPT ![0] = "barrier251"]
  /\ UNCHANGED <<inputVars, nset, nclear, total_length, start, end, mainpc, exitcode, output,
                 team, nthread, num_error, memVars, ii, jj, iter, avgdiv, wcount>>

\* p2p.c:251  #pragma omp barrier
Barrier251(w) ==
  /\ Arrive(w, "barrier251", "in251")
  /\ UNCHANGED <<inputVars, histVars, total_length, start, end, mainpc, exitcode, output,
                 team, nthread, num_error, ii, jj, iter, timeVars, avgdiv, wcount>>

\* the barrier of p2p.c:251 opens: the master goes to the feedback
\* (p2p.c:252), the others to iter++ (p2p.c:200)
Release251 ==
  /\ mainpc = "parallel"
  /\ AllIn("in251")
  /\ \E w \in Team : pc[w] = "in251"
  /\ pc' = [w \in Threads |-> IF pc[w] # "in251" THEN pc[w]
                              ELSE IF w = 0 THEN "feedback"
                              ELSE IterPc(iter[w] + 1)]
  /\ iter' = [w \in Threads |-> IF pc[w] # "in251" \/ w = 0 THEN iter[w]
                                ELSE iter[w] + 1]
  /\ UNCHANGED <<inputVars, histVars, total_length, start, end, mainpc, exitcode, output,
                 team, nthread, num_error, memVars, ii, jj, timeVars, avgdiv,
                 wcount>>

\* p2p.c:252-256  ARRAY(0,0) = -ARRAY(m-1,n-1), then iter++
Feedback ==
  /\ mainpc = "parallel"
  /\ pc[0] = "feedback"
  /\ StoreV(0, ARRAY(0, 0), -ReadV(0, ARRAY(m - 1, n - 1)))
  /\ pc' = [pc EXCEPT ![0] = IterPc(iter[0] + 1)]
  /\ iter' = [iter EXCEPT ![0] = iter[0] + 1]
  /\ UNCHANGED <<inputVars, histVars, total_length, start, end, mainpc, exitcode, output,
                 team, nthread, num_error, ii, jj, timeVars, avgdiv, wcount>>

\* p2p.c:258  end of the parallel region: implicit barrier
RegionEnd(w) ==
  /\ Arrive(w, "end", "joined")
  /\ UNCHANGED <<inputVars, histVars, total_length, start, end, mainpc, exitcode, output,
                 team, nthread, num_error, ii, jj, iter, timeVars, avgdiv, wcount>>

Join ==
  /\ mainpc = "parallel"
  /\ AllIn("joined")
  /\ \E w \in Team : pc[w] = "joined"
  /\ mainpc' = "verify"
  /\ pc' = [w \in Threads |-> "idle"]
  /\ UNCHANGED <<inputVars, histVars, total_length, start, end, exitcode, output, team,
                 nthread, num_error, memVars, ii, jj, iter, timeVars, avgdiv,
                 wcount>>

(* ------------------- initial thread, after the region ------------------- *)
\* abs() of stdlib: its double argument is converted to int first
AbsInt(x) == IF x < 0 THEN -x ELSE x

\* p2p.c:265  corner_val = (double)(iterations*(n+m-2))
CornerVal == iterations * (n + m - 2)

\* p2p.c:266  abs(ARRAY(m-1,n-1)-corner_val)/corner_val > epsilon
\* (x/0 is NaN for x = 0 and +inf otherwise; a comparison with NaN is false)
VerifyFails(corner) ==
  LET d == AbsInt(corner - CornerVal) IN
  IF CornerVal = 0 THEN d # 0
  ELSE IF CornerVal > 0 THEN d * EPSILON_INV > CornerVal
  ELSE FALSE

\* p2p.c:264-270
Verify ==
  /\ mainpc = "verify"
  /\ IF VerifyFails(vector[ARRAY(m - 1, n - 1)])
       THEN /\ ProcessExit("EXIT_FAILURE")
            /\ output' = output \cup {"checksum"}
       ELSE /\ mainpc' = "report"
            /\ output' = output \cup {"validates"}
            /\ UNCHANGED <<exitcode, pc>>
  /\ UNCHANGED <<inputVars, histVars, total_length, start, end, team, nthread, num_error,
                 memVars, ii, jj, iter, timeVars, avgdiv, wcount>>

\* p2p.c:272-284  the divisor of the average, the timing line, exit
Report ==
  /\ mainpc = "report"
  /\ avgdiv' = MAX(iterations - 1, 1)
  /\ output' = output \cup {"rate"}
  /\ ProcessExit("EXIT_SUCCESS")
  /\ UNCHANGED <<inputVars, histVars, total_length, start, end, team, nthread, num_error,
                 memVars, ii, jj, iter, timeVars, wcount>>

(* ------------------------- relaxed memory only -------------------------- *)
\* one pending store of thread w reaches memory before any flush
WriteBack(w) ==
  /\ relaxed
  /\ mainpc = "parallel"
  /\ w \in Team
  /\ \/ \E idx \in DOMAIN wbv[w] :
          /\ vector' = Merge(vector, idx :> wbv[w][idx])
          /\ wbv' = [wbv EXCEPT ![w] = Without(@, idx)]
          /\ UNCHANGED <<flag, wbf>>
     \/ \E k \in DOMAIN wbf[w] :
          /\ flag' = Merge(flag, k :> wbf[w][k])
          /\ wbf' = [wbf EXCEPT ![w] = Without(@, k)]
          /\ UNCHANGED <<vector, wbv>>
  /\ UNCHANGED <<inputVars, histVars, total_length, start, end, mainpc, exitcode, output,
                 team, nthread, num_error, touched, posVars, timeVars, avgdiv,
                 wcount>>

(* --------------------------- specifications ----------------------------- *)
\* Spec: every command line, every interleaving of the threads' steps, a
\* store visible to all threads at once.  SpecWB further below: the same
\* steps with stores held back until a flush, a barrier or a write-back.
Next ==
  \/ Validate
  \/ Partition
  \/ Fork
  \/ Master
  \/ \E w \in Threads : BailArrive(w)
  \/ BailRelease
  \/ \E w \in Threads : BailCheck(w)
  \/ \E w \in Threads : ZeroCell(w)
  \/ \E w \in Threads : BottomCell(w)
  \/ \E w \in Threads : LeftCell(w)
  \/ \E w \in Threads : ResetFlag(w)
  \/ \E w \in Threads : Barrier206(w)
  \/ Release206
  \/ TimerStart
  \/ \E w \in Threads : WaitFlag(w)
  \/ \E w \in Threads : ClearFlag(w)
  \/ \E w \in Threads : ConsumeFlush(w)
  \/ \E w \in Threads : ComputeCell(w)
  \/ \E w \in Threads : PublishWait(w)
  \/ \E w \in Threads : SetFlag(w)
  \/ \E w \in Threads : PublishFlush(w)
  \/ TimerStop
  \/ \E w \in Threads : Barrier251(w)
  \/ Release251
  \/ Feedback
  \/ \E w \in Threads : RegionEnd(w)
  \/ Join
  \/ Verify
  \/ Report

Spec == Init /\ [][Next]_vars

\* the same program under relaxed memory, on the grids where a strip above
\* the last one has rows to compute
InitWB ==
  /\ argc = ARGC_EXPECTED
  /\ nthread_input \in 1 .. 2
  /\ iterations \in 1 .. MaxIter
  /\ m \in 2 .. MaxDim
  /\ n = 2
  /\ relaxed = TRUE
  /\ InitRest

NextWB ==
  \/ Next
  \/ \E w \in Threads : WriteBack(w)

SpecWB == InitWB /\ [][NextWB]_vars

\* the same program on every pair of positive int extents, for the capacity
\* check of p2p.c:140-145
InitCap ==
  /\ argc = ARGC_EXPECTED
  /\ nthread_input \in 1 .. 2
  /\ iterations = 1
  /\ m \in 1 .. INT_MAX
  /\ n \in 1 .. INT_MAX
  /\ relaxed = FALSE
  /\ InitRest

SpecCap == InitCap /\ [][Next]_vars

(* ======================= properties of the program ====================== *)
ColumnLoopPcs == {"wait", "clear", "cflush", "compute", "pubwait", "pubset", "pflush"}
AfterLoopPcs == {"tstop", "barrier251", "in251"}
InColumnLoop(w) == pc[w] \in ColumnLoopPcs

\* number of columns of its current iteration that thread w has computed
ColsDone(w) ==
  IF pc[w] \in {"wait", "clear", "cflush", "compute"} THEN jj[w] - 1
  ELSE IF pc[w] \in {"pubwait", "pubset", "pflush"} THEN jj[w]
  ELSE IF pc[w] \in AfterLoopPcs THEN n - 1
  ELSE 0

\* C1: whenever thread w+1 is in its compute loop for column j, thread w is
\* in the same iteration and has already finished its column j.
C1_PredecessorColumnFirst ==
  \A w \in Team :
    (w + 1 \in Team /\ pc[w + 1] = "compute")
      => /\ iter[w] = iter[w + 1]
         /\ ColsDone(w) >= jj[w + 1]

C1_Witness ==
  /\ team = 2 /\ m = 3 /\ n = 3
  /\ pc[1] = "compute" /\ jj[1] = 1
  /\ pc[0] = "compute" /\ jj[0] = 2

\* C2 (as claimed): once thread w+1 has seen flag[w] set and executed its
\* flush(flag,vector) for column j, no store of thread w to column j of its
\* strip is still waiting to be written back.
C2_ReadyImpliesVisible ==
  \A w \in Team :
    (w + 1 \in Team /\ pc[w + 1] = "compute")
      => \A i \in start[w] .. end[w] : ARRAY(i, jj[w + 1]) \notin DOMAIN wbv[w]

\* C3: when the parallel region has ended on a grid with m >= 2 and n >= 2,
\* the far corner holds iterations*(n+m-2) and the verification passes.
C3_CornerClosedForm ==
  (mainpc = "verify" /\ m >= 2 /\ n >= 2)
    => /\ vector[ARRAY(m - 1, n - 1)] = iterations * (n + m - 2)
       /\ ~VerifyFails(vector[ARRAY(m - 1, n - 1)])

C3_Witness ==
  /\ mainpc = "verify"
  /\ m = 3 /\ n = 3 /\ team = 3 /\ iterations = 2
  /\ vector[ARRAY(2, 2)] = 8

\* C4 (as claimed): on a grid with m = 1 or n = 1 the verification passes.
C4_DegenerateGridsPass ==
  (mainpc = "verify" /\ (m = 1 \/ n = 1))
    => ~VerifyFails(vector[ARRAY(m - 1, n - 1)])

\* C5: while the master is about to write the origin, every other thread has
\* left the column loop of that iteration and not entered the next one; and a
\* thread inside the column loop is in the same iteration as every other
\* thread, the master having already written the origin for the one before.
C5_IterationsDoNotOverlap ==
  /\ pc[0] = "feedback"
       => \A w \in Team \ {0} :
            /\ iter[w] = iter[0] + 1
            /\ pc[w] \in {"reset", "barrier206", "in206", "end", "joined"}
  /\ \A w \in Team :
       InColumnLoop(w)
         => /\ pc[0] # "feedback"
            /\ iter[0] = iter[w]
            /\ \A v \in Team : iter[v] = iter[w]
            /\ \A v \in Team : pc[v] \in ColumnLoopPcs \cup AfterLoopPcs \cup {"tstart"}

C5_Witness ==
  /\ team = 3
  /\ pc[0] = "feedback"
  /\ iter[0] = 0
  /\ pc[1] = "in206"
  /\ pc[2] = "reset"

\* the grid a single thread sweeping all rows leaves behind (p2p.c:195-256
\* with one strip), written without reference to the threaded actions
SeqSeed ==
  [c \in Cells |->
     IF c >= m * n THEN 0
     ELSE IF c % m = 0 THEN c \div m
     ELSE IF c \div m = 0 THEN c % m
     ELSE 0]

RECURSIVE SeqSweep(_, _, _)
SeqSweep(g, i, j) ==
  IF j >= n THEN g
  ELSE IF i > m - 1 THEN SeqSweep(g, 1, j + 1)
  ELSE SeqSweep([g EXCEPT ![i + j * m] =
                    g[(i - 1) + j * m] + g[i + (j - 1) * m] - g[(i - 1) + (j - 1) * m]],
                i + 1, j)

RECURSIVE SeqRun(_, _)
SeqRun(g, k) ==
  IF k = 0 THEN g
  ELSE LET s == SeqSweep(g, 1, 1) IN
       SeqRun([s EXCEPT ![0] = -s[(m - 1) + (n - 1) * m]], k - 1)

\* C6: when the parallel region has ended, the whole grid equals the grid of
\* the sequential sweep, whatever the team size and the interleaving; so does
\* the outcome of the verification.
C6_SameGridForEveryTeam ==
  mainpc = "verify"
    => /\ vector = SeqRun(SeqSeed, iterations)
       /\ VerifyFails(vector[ARRAY(m - 1, n - 1)])
            = VerifyFails(SeqRun(SeqSeed, iterations)[(m - 1) + (n - 1) * m])

C6_Witness ==
  /\ mainpc = "verify"
  /\ m = 3 /\ n = 3 /\ team = 2 /\ iterations = 2
  /\ vector = SeqRun(SeqSeed, 2)
  /\ vector[ARRAY(1, 1)] = 6

SliceSize(w) == end[w] - start[w] + 1

\* C7: the slice table starts at 0, ends at m-1, is contiguous, has no empty
\* strip, its sizes differ by at most 1, and the strips of the larger size
\* are exactly those of the m mod W lowest-numbered threads.
C7_PartitionShape ==
  (DOMAIN start # {})
    => LET W == nthread_input IN
       /\ DOMAIN start = 0 .. W - 1
       /\ DOMAIN end = 0 .. W - 1
       /\ start[0] = 0
       /\ end[W - 1] = m - 1
       /\ \A w \in 0 .. W - 2 : start[w + 1] = end[w] + 1
       /\ \A w \in 0 .. W - 1 : start[w] <= end[w]
       /\ \A w, v \in 0 .. W - 1 : SliceSize(w) - SliceSize(v) <= 1
       /\ \A w \in 0 .. W - 1 :
            SliceSize(w) = (m \div W) + (IF w < m % W THEN 1 ELSE 0)

C7_Witness ==
  /\ mainpc = "fork"
  /\ nthread_input = 3
  /\ m = 2^(IntBits \div 2)
  /\ SliceSize(0) = SliceSize(2) + 1

\* cells the next step of thread w stores to, and cells it loads from
WriteSet(w) ==
  IF pc[w] \in {"zero", "compute"} THEN {ARRAY(ii[w], jj[w])}
  ELSE IF pc[w] = "bottom" THEN {ARRAY(start[w], jj[w])}
  ELSE IF pc[w] = "left" THEN {ARRAY(ii[w], 0)}
  ELSE IF pc[w] = "feedback" THEN {ARRAY(0, 0)}
  ELSE {}

ReadSet(w) ==
  IF pc[w] = "compute"
    THEN {ARRAY(ii[w] - 1, jj[w]), ARRAY(ii[w], jj[w] - 1), ARRAY(ii[w] - 1, jj[w] - 1)}
  ELSE IF pc[w] = "feedback" THEN {ARRAY(m - 1, n - 1)}
  ELSE {}

InteriorCells == {ARRAY(i, j) : i \in 1 .. m - 1, j \in 1 .. n - 1}

\* C8: no two threads are about to access the same grid cell with one of
\* them storing; a compute-loop store goes to an interior cell of the
\* storing thread's own strip; within an iteration no cell is stored twice by
\* the compute loop and, once all threads have left the column loop, every
\* interior cell has been stored exactly once; only thread 0 ever stores to
\* the origin, and inside the iteration loop it does so only while all other
\* threads are between the barrier after the column loop and the next
\* flag-reset barrier.
C8_GridRaceFree ==
  /\ \A w, v \in Team :
       w # v => WriteSet(w) \cap (ReadSet(v) \cup WriteSet(v)) = {}
  /\ \A w \in Team :
       pc[w] = "compute"
         => /\ start[w] <= ii[w] /\ ii[w] <= end[w]
            /\ ii[w] >= 1 /\ jj[w] >= 1 /\ jj[w] < n
  /\ \A c \in Cells : wcount[c] <= 1
  /\ \A c \in Cells : wcount[c] = 1 => c \in InteriorCells
  /\ (mainpc = "parallel" /\ \A w \in Team : pc[w] \in AfterLoopPcs)
       => \A c \in InteriorCells : wcount[c] = 1
  /\ \A w \in Team :
       ARRAY(0, 0) \in WriteSet(w)
         => /\ w = 0
            /\ pc[w] \in {"zero", "bottom", "left", "feedback"}
            /\ pc[w] = "feedback"
                 => \A v \in Team \ {0} :
                      pc[v] \in {"reset", "barrier206", "in206", "end", "joined"}

C8_Witness ==
  /\ team = 3 /\ m = 3 /\ n = 3
  /\ pc[0] = "tstop" /\ pc[1] = "in251" /\ pc[2] = "barrier251"
  /\ iter[0] = 1
  /\ \A c \in InteriorCells : wcount[c] = 1

ZeroGrid == [c \in Cells |-> 0]

\* C9: with more threads requested than rows the program never gets past the
\* argument checks: it ends with a failure exit, no thread was started, no
\* grid cell or flag was stored to, and no timing line was printed.
C9_TooManyThreadsFailsEarly ==
  nthread_input > m
    => /\ mainpc \in {"validate", "exit"}
       /\ team = 0
       /\ ~touched
       /\ vector = ZeroGrid
       /\ "rate" \notin output
       /\ mainpc = "exit" => exitcode = "EXIT_FAILURE"

C9_Witness ==
  /\ nthread_input = 3 /\ m = 2 /\ n = 2 /\ iterations = 1
  /\ mainpc = "exit"
  /\ exitcode = "EXIT_FAILURE"
  /\ output = {"rows"}

\* C10: a pair of positive extents whose true product exceeds MEMWORDS is
\* rejected by the capacity check, also when the product wraps in int
\* arithmetic; and every cell index a step of an accepted run is about to use
\* lies in 0..MEMWORDS-1.
C10_CapacityCheckSound ==
  /\ (m >= 1 /\ n >= 1 /\ m * n > MEMWORDS)
       => /\ mainpc \in {"validate", "exit"}
          /\ mainpc = "exit"
               => /\ exitcode = "EXIT_FAILURE"
                  /\ output = {"too large"}
                  /\ total_length = Wrap(m * n)
                  /\ ~touched
  /\ \A w \in Team : WriteSet(w) \cup ReadSet(w) \subseteq Cells
  /\ mainpc = "verify" => ARRAY(m - 1, n - 1) \in Cells

C10_Witness ==
  /\ m = INT_MAX /\ n = INT_MAX
  /\ argc = ARGC_EXPECTED /\ nthread_input = 1 /\ iterations = 1
  /\ mainpc = "exit"
  /\ total_length = 1
  /\ total_length <= MEMWORDS
  /\ output = {"too large"}

\* C11 (as claimed): the master takes the start sample only once the
\* flag-reset barrier has opened, and it has taken the end sample of an
\* iteration only when no thread is in its column loop any more.
C11_EndSampleAfterAllFinished ==
  /\ pc[0] = "tstart"
       => \A w \in Team : pc[w] \notin {"reset", "barrier206", "in206"}
  /\ pc[0] \in {"barrier251", "in251"}
       => \A w \in Team : ~InColumnLoop(w)

\* number of times the master has stopped the timer
Stops == IF pc[0] \in {"barrier251", "in251", "feedback"} THEN iter[0] + 1 ELSE iter[0]

RECURSIVE SumElapsed(_)
SumElapsed(f) == IF f = << >> THEN 0 ELSE f[1][2] + SumElapsed(Tail(f))

ElapsedOf(f) == {f[x][2] : x \in DOMAIN f}

\* C12: the samples added to the running sum are exactly those of the
\* iterations with index > 0, or of iteration 0 when one iteration was asked
\* for; sum, minimum and maximum are those of these samples; after the last
\* iteration their number is max(iterations-1, 1), the divisor of the average.
C12_WarmupSampleSkipped ==
  /\ \A x \in DOMAIN folded : folded[x][1] = 0 => iterations = 1
  /\ \A x, y \in DOMAIN folded : x < y => folded[x][1] < folded[y][1]
  /\ {folded[x][1] : x \in DOMAIN folded}
        = {k \in 0 .. Stops - 1 : k > 0 \/ iterations = 1}
  /\ avgtime = SumElapsed(folded)
  /\ \A e \in ElapsedOf(folded) : mintime <= e /\ e <= maxtime
  /\ folded # << >> => mintime \in ElapsedOf(folded) /\ maxtime \in ElapsedOf(folded)
  /\ mainpc \in {"verify", "report"}
       => Len(folded) = (IF iterations - 1 > 1 THEN iterations - 1 ELSE 1)
  /\ (mainpc = "exit" /\ exitcode = "EXIT_SUCCESS")
       => /\ avgdiv = Len(folded)
          /\ avgdiv = (IF iterations - 1 > 1 THEN iterations - 1 ELSE 1)

C12_Witness ==
  /\ mainpc = "exit" /\ exitcode = "EXIT_SUCCESS"
  /\ iterations = 2
  /\ folded = << <<1, 2>> >>
  /\ avgtime = 2 /\ mintime = 2 /\ maxtime = 2 /\ avgdiv = 1

\* C13: when the runtime delivers a team of another size than requested, no
\* thread gets past bail_out: nothing is stored to flag or vector, no timer
\* sample is taken, and the program ends with a failure exit after the
\* mismatch message and without a timing line.
C13_SpawnMismatchFatal ==
  (team >= 1 /\ team # nthread_input)
    => /\ \A w \in Threads : pc[w] \in {"idle", "master", "bail", "in_bail", "bailchk"}
       /\ \A w \in Threads : iter[w] = 0 /\ nset[w] = 0 /\ nclear[w] = 0
       /\ ~touched
       /\ vector = ZeroGrid
       /\ folded = << >>
       /\ pipeline_time = 0 /\ clock = 0
       /\ mainpc \in {"parallel", "exit"}
       /\ mainpc = "exit"
            => /\ exitcode = "EXIT_FAILURE"
               /\ "spawn mismatch" \in output
               /\ "rate" \notin output

C13_Witness ==
  /\ nthread_input = 3 /\ team = 2
  /\ num_error = 1
  /\ mainpc = "exit"
  /\ exitcode = "EXIT_FAILURE"
  /\ output = {"header", "spawn mismatch"}

(* ------------------------------ progress -------------------------------- *)
\* the steps of the initial thread, of the barrier runtime, and of thread w
MainStep == Validate \/ Partition \/ Fork \/ Join \/ Verify \/ Report

RuntimeStep == BailRelease \/ Release206 \/ Release251

WorkerStep(w) ==
  \/ (w = 0 /\ (Master \/ TimerStart \/ TimerStop \/ Feedback))
  \/ BailArrive(w) \/ BailCheck(w)
  \/ ZeroCell(w) \/ BottomCell(w) \/ LeftCell(w)
  \/ ResetFlag(w) \/ Barrier206(w)
  \/ WaitFlag(w) \/ ClearFlag(w) \/ ConsumeFlush(w)
  \/ ComputeCell(w)
  \/ PublishWait(w) \/ SetFlag(w) \/ PublishFlush(w)
  \/ Barrier251(w) \/ RegionEnd(w)

\* every thread that can take a step eventually takes one; a barrier that
\* can open eventually opens
Fairness ==
  /\ WF_vars(MainStep)
  /\ WF_vars(RuntimeStep)
  /\ \A w \in Threads : WF_vars(WorkerStep(w))

\* the command lines that pass the dimension checks, stores visible at once
InitLive ==
  /\ argc = ARGC_EXPECTED
  /\ nthread_input \in 1 .. MAX_THREADS
  /\ iterations \in 1 .. MaxIter
  /\ m \in 1 .. MaxDim
  /\ n \in 1 .. MaxDim
  /\ relaxed = FALSE
  /\ InitRest

SpecLive == InitLive /\ [][Next]_vars /\ Fairness

\* C14: under fair scheduling every spin loop on a flag is left, every thread
\* that starts an iteration passes the barrier after the flag reset and arrives
\* in the barrier after the column loop, and a team of the requested size
\* leaves the parallel region.
C14_RegionTerminates ==
  /\ (mainpc = "parallel" /\ team = nthread_input) ~> (mainpc = "verify")
  /\ \A w \in Threads : (pc[w] \in {"wait", "pubwait"}) ~> (pc[w] \in {"clear", "pubset"})
  /\ \A w \in Threads : (pc[w] = "reset") ~> (pc[w] = "in251")

C14_Witness ==
  /\ team = 3 /\ n = 3 /\ iterations = 2
  /\ iter[1] = 1
  /\ pc[1] = "wait" /\ jj[1] = 2 /\ flag[0] = 0
  /\ pc[2] = "wait" /\ flag[1] = 0

\* thread w has executed the flag reset of p2p.c:203 at least once
HasReset(w) ==
  \/ iter[w] > 0
  \/ pc[w] \notin {"idle", "master", "bail", "in_bail", "bailchk",
                  "zero", "bottom", "left", "reset"}

\* C15: once thread w has reset its flag, the flag is the number of sets by w
\* minus the number of clears by w+1 in the iteration, which is 0 or 1 (sets
\* and clears alternate, a set first); w stores 1 only into a flag that is 0,
\* w+1 stores 0 only into a flag that is 1, the clears of a flag belong to
\* the columns its reader has reached, and the flag of the last thread of the
\* team is never set.
C15_FlagIsOneSlotChannel ==
  \A w \in Team :
    /\ HasReset(w) =>
         /\ flag[w] = nset[w] - nclear[w]
         /\ flag[w] \in {0, 1}
    /\ nclear[w] <= nset[w]
    /\ nset[w] <= nclear[w] + 1
    /\ pc[w] = "pubset" => flag[w] = 0 /\ HasSuccessor(w)
    /\ (w > 0 /\ pc[w] = "clear") => flag[w - 1] = 1
    /\ ~HasSuccessor(w) => nset[w] = 0 /\ nclear[w] = 0
    /\ (HasReset(w) /\ ~HasSuccessor(w)) => flag[w] = 0
    /\ InColumnLoop(w) => nset[w] = (IF pc[w] \in {"pflush"} THEN jj[w]
                                       ELSE IF HasSuccessor(w) THEN jj[w] - 1
                                       ELSE 0)

C15_Witness ==
  /\ team = 3 /\ n = 3
  /\ pc[0] = "tstop" /\ flag[0] = 1 /\ nset[0] = 2 /\ nclear[0] = 1
  /\ pc[1] = "clear" /\ jj[1] = 2 /\ flag[1] = 0 /\ nset[1] = 1 /\ nclear[1] = 1
  /\ pc[2] = "compute"

\* C16: when the whole team is in the barrier after the column loop every
\* flag is 0 and every set has been matched by a clear; and when a thread is
\* about to reset its flag no thread of the team is in the column loop, its
\* successor has started the same iteration, and from the second iteration on
\* the flag it resets is already 0 with nothing published left unconsumed.
C16_ResetNeverClobbers ==
  /\ (\A w \in Team : pc[w] = "in251") =>
       \A w \in Team : flag[w] = 0 /\ nset[w] = nclear[w]
  /\ \A w \in Team :
       pc[w] = "reset" =>
         /\ \A v \in Team : ~InColumnLoop(v)
         /\ (w + 1) \in Team =>
              /\ iter[w + 1] \in {iter[w], iter[w] + 1}
              /\ iter[w + 1] = iter[w] + 1 => w = 0
              /\ pc[w + 1] \in {"bailchk", "zero", "bottom", "left",
                               "reset", "barrier206", "in206"}
         /\ iter[w] >= 1 => flag[w] = 0 /\ nset[w] = nclear[w]

C16_Witness ==
  /\ team = 3 /\ n = 3
  /\ pc[0] = "feedback"
  /\ pc[1] = "reset" /\ iter[1] = 1 /\ flag[1] = 0 /\ nset[1] = 2 /\ nclear[1] = 2
  /\ pc[2] = "barrier206" /\ iter[2] = 1

RECURSIVE SumUpTo(_, _)
\* f[0] + ... + f[k-1]
SumUpTo(f, k) == IF k <= 0 THEN 0 ELSE f[k - 1] + SumUpTo(f, k - 1)

\* p2p.c:185, 275  (n-1)*(nthread-1)
PairwiseSynchs == (n - 1) * (nthread - 1)

\* C17: when every thread of the team has left the column loop of an
\* iteration, the stores of 1 to a thread's own flag in that iteration number
\* (n-1)*(nthread-1), as many as the stores of 0 to a predecessor's flag:
\* n-1 of each per flag that has a reader.
C17_HandoffCount ==
  (team >= 1 /\ \A w \in Team : pc[w] \in AfterLoopPcs) =>
    /\ SumUpTo(nset, team) = PairwiseSynchs
    /\ SumUpTo(nclear, team) = PairwiseSynchs
    /\ \A w \in Team : nset[w] = nclear[w]
    /\ \A w \in Team : nset[w] = (IF HasSuccessor(w) THEN n - 1 ELSE 0)

C17_Witness ==
  /\ team = 3 /\ n = 3 /\ iterations = 2
  /\ \A w \in Team : pc[w] = "in251" /\ iter[w] = 1
  /\ SumUpTo(nset, team) = 4
  /\ SumUpTo(nclear, team) = 4

\* C18: when every thread of the team is between the end of its column loop
\* and the opening of the barrier before the corner feedback, each cell (i,j)
\* with i >= 1 and j >= 1 is cell(i-1,j) + cell(i,j-1) - cell(i-1,j-1), row 0
\* holds j for j >= 1 and column 0 holds i for i >= 1.
C18_RecurrenceAtBarrier ==
  (team >= 1 /\ \A w \in Team : pc[w] \in AfterLoopPcs) =>
    /\ \A i \in 1 .. m - 1 : \A j \in 1 .. n - 1 :
         vector[ARRAY(i, j)] = vector[ARRAY(i - 1, j)] + vector[ARRAY(i, j - 1)]
                               - vector[ARRAY(i - 1, j - 1)]
    /\ \A j \in 1 .. n - 1 : vector[ARRAY(0, j)] = j
    /\ \A i \in 1 .. m - 1 : vector[ARRAY(i, 0)] = i

C18_Witness ==
  /\ team = 3 /\ m = 3 /\ n = 3 /\ iterations = 2
  /\ \A w \in Team : pc[w] \in AfterLoopPcs /\ iter[w] = 1
  /\ pc[0] = "tstop"
  /\ vector[ARRAY(0, 0)] = -4
  /\ vector[ARRAY(1, 1)] = 6
  /\ vector[ARRAY(2, 2)] = 8

\* thread w has executed the first pass of its compute loop for its current
\* column, the pass that reads the cell of the strip above
HaloRead(w) == wcount[ARRAY(FirstRow(w), jj[w])] >= 1

InitCols ==
  /\ argc = ARGC_EXPECTED
  /\ nthread_input \in 1 .. 2
  /\ iterations \in 1 .. MaxIter
  /\ m = 2
  /\ n \in 2 .. MaxCols
  /\ relaxed = FALSE
  /\ InitRest

SpecCols == InitCols /\ [][Next]_vars

\* number of columns of its current iteration that thread w has begun
ColsBegun(w) ==
  IF InColumnLoop(w) THEN jj[w]
  ELSE IF pc[w] \in AfterLoopPcs THEN n - 1
  ELSE 0

\* C20: a thread with a successor that has begun column j+2 has had its flag
\* cleared for column j; at most one set of its flag is not yet cleared; the
\* columns it has begun exceed the clears of its flag by at most two.
C20_RunAheadBounded ==
  \A w \in Team :
    (w + 1) \in Team =>
      /\ nclear[w] >= ColsBegun(w) - 2
      /\ nset[w] - nclear[w] \in {0, 1}
      /\ ColsDone(w) - nclear[w] <= 2
      /\ ColsDone(w) - nset[w] <= 1

C20_Witness ==
  /\ team = 2 /\ n = 4
  /\ pc[0] = "pubwait" /\ jj[0] = 3
  /\ nset[0] = 2 /\ nclear[0] = 1 /\ flag[0] = 1
  /\ pc[1] = "compute" /\ jj[1] = 1

====
